---- MODULE Spec2Model ----
(***************************************************************************)
(* Local Legends client: world/camera model, movement and collision,       *)
(* NPC proximity (frontend/game.js) and the chat session bridge            *)
(* (frontend/chat.js), as a state machine of the browser's event loop.     *)
(*                                                                         *)
(* Lengths are in whole pixels.  The environment's inputs (window sizes,   *)
(* the map image's natural size, click points, frame intervals, backend    *)
(* responses) are drawn from the small sets defined below; they are chosen *)
(* so that every division the code performs on them is exact.              *)
(***************************************************************************)
EXTENDS Integers, Sequences, FiniteSets, TLC

VARIABLES game, chat, pending, lastOp, used

vars == <<game, chat, pending, lastOp, used>>

Null == "null"
Undefined == -1

-----------------------------------------------------------------------------
(* Bounds of the exploration *)

MaxFrames == 2
MaxClicks == 1
MaxResizes == 1
MaxOpens == 2
MaxSends == 2
MaxResets == 1

(* Environment inputs *)

InitialScreens == {<<500, 500>>}
ScreenSizes == {<<500, 500>>, <<1000, 500>>, <<100, 100>>, <<500, 100>>}
ImageSizes == {<<1, 1>>}
KeyInputs == {"w", "d"}
ClickOffsets == {<<0, 64>>, <<-248, -248>>}
FrameQuanta == {1, 2}

-----------------------------------------------------------------------------
(* Program constants *)

PlayerSpeed == 3
ScaleNum == 12
ScaleDen == 5
SizeNum == 2
SizeDen == 25
MinSize == 40
MaxSize == 200
FallbackSize == 100
BaseInteractionDistance == 100
ConsistencyCadence == 60
Duration == 500
Quantum == Duration \div 2
DurationSteps == Duration \div Quantum

(* Frames run in a row: up to the frame that finds frameCount at the cadence *)
BurstLengths == {ConsistencyCadence - 1}

Min(a, b) == IF a < b THEN a ELSE b
Max(a, b) == IF a > b THEN a ELSE b

-----------------------------------------------------------------------------
(* World / camera model *)

CharacterSize_Unclamped(g) == (Min(g.mapWidth, g.mapHeight) * SizeNum) \div SizeDen

(* calculateCharacterSizes: size = clamp(8% of the smaller map dimension) *)
CharacterSize(g) ==
    LET m == Min(g.mapWidth, g.mapHeight)
    IN  IF m * SizeNum < MinSize * SizeDen THEN MinSize
        ELSE IF m * SizeNum > MaxSize * SizeDen THEN MaxSize
        ELSE (m * SizeNum) \div SizeDen

calculateCharacterSizes_KeepsDistance(g) ==
    IF g.mapWidth = 0 \/ g.mapHeight = 0 THEN g
    ELSE LET characterSize == CharacterSize(g)
         IN  [g EXCEPT !.player.width = characterSize,
                       !.player.height = characterSize,
                       !.npcs = [i \in DOMAIN g.npcs |->
                                   [g.npcs[i] EXCEPT !.width = characterSize,
                                                     !.height = characterSize]]]

calculateCharacterSizes_PlayerOnly(g) ==
    IF g.mapWidth = 0 \/ g.mapHeight = 0 THEN g
    ELSE LET characterSize == CharacterSize(g)
         IN  [g EXCEPT !.player.width = characterSize,
                       !.player.height = characterSize,
                       !.interactionDistance = (characterSize * 3) \div 2]

calculateCharacterSizes(g) ==
    IF g.mapWidth = 0 \/ g.mapHeight = 0 THEN g
    ELSE LET characterSize == CharacterSize(g)
         IN  [g EXCEPT !.player.width = characterSize,
                       !.player.height = characterSize,
                       !.npcs = [i \in DOMAIN g.npcs |->
                                   [g.npcs[i] EXCEPT !.width = characterSize,
                                                     !.height = characterSize]],
                       !.interactionDistance = (characterSize * 3) \div 2]

calculateMapDimensions_Cover(g) ==
    LET wider == g.imageWidth * g.screenHeight > g.screenWidth * g.imageHeight
        mw == IF ~wider
              THEN (g.screenWidth * ScaleNum) \div ScaleDen
              ELSE (g.screenHeight * ScaleNum * g.imageWidth) \div (ScaleDen * g.imageHeight)
        mh == IF ~wider
              THEN (g.screenWidth * ScaleNum * g.imageHeight) \div (ScaleDen * g.imageWidth)
              ELSE (g.screenHeight * ScaleNum) \div ScaleDen
    IN  calculateCharacterSizes(
            [g EXCEPT !.mapWidth = mw,
                      !.mapHeight = mh,
                      !.mapOffsetX = (g.screenWidth - mw) \div 2,
                      !.mapOffsetY = (g.screenHeight - mh) \div 2])

calculateMapDimensions(g) ==
    LET wider == g.imageWidth * g.screenHeight > g.screenWidth * g.imageHeight
        mw == IF wider
              THEN (g.screenWidth * ScaleNum) \div ScaleDen
              ELSE (g.screenHeight * ScaleNum * g.imageWidth) \div (ScaleDen * g.imageHeight)
        mh == IF wider
              THEN (g.screenWidth * ScaleNum * g.imageHeight) \div (ScaleDen * g.imageWidth)
              ELSE (g.screenHeight * ScaleNum) \div ScaleDen
    IN  calculateCharacterSizes(
            [g EXCEPT !.mapWidth = mw,
                      !.mapHeight = mh,
                      !.mapOffsetX = (g.screenWidth - mw) \div 2,
                      !.mapOffsetY = (g.screenHeight - mh) \div 2])

updateCamera(g) ==
    LET targetCameraX == g.player.x - g.screenWidth \div 2
        targetCameraY == g.player.y - g.screenHeight \div 2
        minCameraX == g.mapOffsetX
        maxCameraX == g.mapOffsetX + g.mapWidth - g.screenWidth
        minCameraY == g.mapOffsetY
        maxCameraY == g.mapOffsetY + g.mapHeight - g.screenHeight
    IN  [g EXCEPT !.camera.x = IF g.mapWidth > g.screenWidth
                               THEN Max(minCameraX, Min(maxCameraX, targetCameraX))
                               ELSE g.mapOffsetX,
                  !.camera.y = IF g.mapHeight > g.screenHeight
                               THEN Max(minCameraY, Min(maxCameraY, targetCameraY))
                               ELSE g.mapOffsetY]

-----------------------------------------------------------------------------
(* Movement and collision *)

checkCollision_NoBounds(g, x, y) == FALSE

(* The obstacle list of checkCollision is empty in the source. *)
checkCollision(g, x, y) ==
    LET halfWidth == g.player.width \div 2
        halfHeight == g.player.height \div 2
        minX == g.mapOffsetX + halfWidth
        maxX == g.mapOffsetX + g.mapWidth - halfWidth
        minY == g.mapOffsetY + halfHeight
        maxY == g.mapOffsetY + g.mapHeight - halfHeight
    IN  x < minX \/ x > maxX \/ y < minY \/ y > maxY

movePlayer_PerAxis(g, newX, newY) ==
    LET halfWidth == g.player.width \div 2
        halfHeight == g.player.height \div 2
        okX == newX >= g.mapOffsetX + halfWidth
                   /\ newX <= g.mapOffsetX + g.mapWidth - halfWidth
        okY == newY >= g.mapOffsetY + halfHeight
                   /\ newY <= g.mapOffsetY + g.mapHeight - halfHeight
    IN  updateCamera([g EXCEPT !.player.x = IF okX THEN newX ELSE @,
                               !.player.y = IF okY THEN newY ELSE @])

movePlayer(g, newX, newY) ==
    IF checkCollision(g, newX, newY) THEN g
    ELSE updateCamera([g EXCEPT !.player.x = newX, !.player.y = newY])

updatePlayerDirection_HorizontalFirst(g, movementX, movementY) ==
    LET newDirection ==
            IF movementX < 0 THEN "front_left"
            ELSE IF movementX > 0 THEN "front_right"
            ELSE IF movementY < 0 THEN "behind"
            ELSE IF movementY > 0 THEN "front"
            ELSE g.currentDirection
    IN  [g EXCEPT !.currentDirection = newDirection,
                  !.player.image = IF newDirection # g.currentDirection
                                      /\ newDirection \in g.playerImagesLoaded
                                   THEN newDirection ELSE @]

(* player.image is named by the direction of the sprite it refers to; the  *)
(* sprite is switched only when the direction changes and the new          *)
(* direction's sprite has loaded.                                          *)
updatePlayerDirection(g, movementX, movementY) ==
    LET newDirection ==
            IF movementY < 0
            THEN (IF movementX < 0 THEN "behind_left"
                  ELSE IF movementX > 0 THEN "behind_right" ELSE "behind")
            ELSE IF movementY > 0
            THEN (IF movementX < 0 THEN "front_left"
                  ELSE IF movementX > 0 THEN "front_right" ELSE "front")
            ELSE IF movementX < 0 THEN "front_left"
            ELSE IF movementX > 0 THEN "front_right"
            ELSE g.currentDirection
    IN  [g EXCEPT !.currentDirection = newDirection,
                  !.player.image = IF newDirection # g.currentDirection
                                      /\ newDirection \in g.playerImagesLoaded
                                   THEN newDirection ELSE @]

(* What drawPlayer puts on the canvas: the sprite player.image refers to,  *)
(* or the coloured rectangle                                               *)
Rectangle == "rectangle"

drawPlayer(g) ==
    IF g.currentDirection \in g.playerImagesLoaded /\ g.player.image # Null
    THEN g.player.image
    ELSE Rectangle

-----------------------------------------------------------------------------
(* Proximity *)

(* An NPC's x and y are fractions of the map, kept as <<numerator,         *)
(* denominator>>                                                           *)
NpcWorldX(g, npc) == g.mapOffsetX + (npc.x[1] * g.mapWidth) \div npc.x[2]
NpcWorldY(g, npc) == g.mapOffsetY + (npc.y[1] * g.mapHeight) \div npc.y[2]

DistanceSq(g, npc) ==
    LET dx == g.player.x - NpcWorldX(g, npc)
        dy == g.player.y - NpcWorldY(g, npc)
    IN  dx * dx + dy * dy

(* The forEach of checkNPCProximity: closest is 0 (none) or an index of    *)
(* npcs; distances are compared by their squares.                          *)
RECURSIVE ClosestFrom_LastWins(_, _, _)
ClosestFrom_LastWins(g, i, closest) ==
    IF i > Len(g.npcs) THEN closest
    ELSE LET d == DistanceSq(g, g.npcs[i])
             inRange == d < g.interactionDistance * g.interactionDistance
             closer == closest = 0 \/ d <= DistanceSq(g, g.npcs[closest])
         IN  ClosestFrom_LastWins(g, i + 1, IF inRange /\ closer THEN i ELSE closest)

RECURSIVE ClosestFrom(_, _, _)
ClosestFrom(g, i, closest) ==
    IF i > Len(g.npcs) THEN closest
    ELSE LET d == DistanceSq(g, g.npcs[i])
             inRange == d < g.interactionDistance * g.interactionDistance
             closer == closest = 0 \/ d < DistanceSq(g, g.npcs[closest])
         IN  ClosestFrom(g, i + 1, IF inRange /\ closer THEN i ELSE closest)

(* updateInteractionPrompt is called exactly when the selection differs    *)
(* from the stored nearbyNPC.                                              *)
PromptUpdates(g) == ClosestFrom(g, 1, 0) # g.nearbyNPC

checkNPCProximity_Releases(g) ==
    [g EXCEPT !.nearbyNPC = IF g.nearbyNPC = 0 THEN ClosestFrom(g, 1, 0) ELSE 0]

checkNPCProximity(g) == [g EXCEPT !.nearbyNPC = ClosestFrom(g, 1, 0)]

-----------------------------------------------------------------------------
(* Per-frame simulation *)

Pressed(g, a, b) == a \in g.keys \/ b \in g.keys

(* The guard "this.chatSystem && this.chatSystem.isChatOpen()" *)
InputSuppressed(g, chatOpen) == g.chatSystem /\ chatOpen

(* The position handleInput passes to movePlayer *)
KeyTarget(g) ==
    LET currentSpeed == IF g.ctrlPressed THEN PlayerSpeed * 2 ELSE PlayerSpeed
    IN  << g.player.x - (IF Pressed(g, "a", "arrowleft") THEN currentSpeed ELSE 0)
                      + (IF Pressed(g, "d", "arrowright") THEN currentSpeed ELSE 0),
           g.player.y - (IF Pressed(g, "w", "arrowup") THEN currentSpeed ELSE 0)
                      + (IF Pressed(g, "s", "arrowdown") THEN currentSpeed ELSE 0) >>

handleInput(g, chatOpen) ==
    IF InputSuppressed(g, chatOpen) THEN g
    ELSE LET currentSpeed == IF g.ctrlPressed THEN PlayerSpeed * 2 ELSE PlayerSpeed
             up == Pressed(g, "w", "arrowup")
             down == Pressed(g, "s", "arrowdown")
             left == Pressed(g, "a", "arrowleft")
             right == Pressed(g, "d", "arrowright")
             newY == g.player.y - (IF up THEN currentSpeed ELSE 0)
                                + (IF down THEN currentSpeed ELSE 0)
             newX == g.player.x - (IF left THEN currentSpeed ELSE 0)
                                + (IF right THEN currentSpeed ELSE 0)
             movementY == IF down THEN 1 ELSE IF up THEN -1 ELSE 0
             movementX == IF right THEN 1 ELSE IF left THEN -1 ELSE 0
             g1 == IF movementX # 0 \/ movementY # 0
                   THEN updatePlayerDirection(g, movementX, movementY)
                   ELSE g
         IN  checkNPCProximity(movePlayer(g1, newX, newY))

ensureConsistentCharacterSizes(g) ==
    IF g.player.width = 0 THEN g
    ELSE [g EXCEPT !.npcs = [i \in DOMAIN g.npcs |->
                               [g.npcs[i] EXCEPT !.width = g.player.width,
                                                 !.height = g.player.width]]]

gameLoop_NoRequest(g, chatOpen) ==
    LET g1 == handleInput(g, chatOpen)
        g2 == IF g1.frameCount # Undefined /\ g1.frameCount % ConsistencyCadence = 0
              THEN ensureConsistentCharacterSizes(g1)
              ELSE g1
    IN  [g2 EXCEPT !.frameCount = (IF g2.frameCount = Undefined THEN 0 ELSE g2.frameCount) + 1]

(* gameLoop: frameCount is undefined until the first frame has run; the    *)
(* call ends by requesting the next animation frame.  rafPending counts    *)
(* the requested gameLoop callbacks that have not run yet.                 *)
gameLoop(g, chatOpen) ==
    LET g1 == handleInput(g, chatOpen)
        g2 == IF g1.frameCount # Undefined /\ g1.frameCount % ConsistencyCadence = 0
              THEN ensureConsistentCharacterSizes(g1)
              ELSE g1
    IN  [g2 EXCEPT !.frameCount = (IF g2.frameCount = Undefined THEN 0 ELSE g2.frameCount) + 1,
                   !.rafPending = @ + 1]

(* The browser runs a requested gameLoop callback *)
AnimationFrame(g, chatOpen) == gameLoop([g EXCEPT !.rafPending = @ - 1], chatOpen)

(* Cubic ease-out 1 - (1 - t)^3 at t = k / DurationSteps, as a fraction *)
EaseDen == DurationSteps * DurationSteps * DurationSteps
EaseNum(k) == EaseDen - (DurationSteps - k) * (DurationSteps - k) * (DurationSteps - k)

AnimateStep_StopsShort(g, a, k) ==
    IF k < DurationSteps
    THEN movePlayer(g, a.startX + ((a.targetX - a.startX) * EaseNum(k)) \div EaseDen,
                       a.startY + ((a.targetY - a.startY) * EaseNum(k)) \div EaseDen)
    ELSE g

(* One call of the animate closure of movePlayerTo after k quanta *)
AnimateStep(g, a, k) ==
    movePlayer(g, a.startX + ((a.targetX - a.startX) * EaseNum(k)) \div EaseDen,
                  a.startY + ((a.targetY - a.startY) * EaseNum(k)) \div EaseDen)

RECURSIVE RunAnimations_Requeues(_, _, _)
RunAnimations_Requeues(g, as, dt) ==
    IF as = <<>> THEN [g EXCEPT !.anims = <<>>]
    ELSE LET a == Head(as)
             k == Min(a.elapsed + dt, DurationSteps)
             g1 == AnimateStep(g, a, k)
             rest == RunAnimations_Requeues(g1, Tail(as), dt)
         IN  [rest EXCEPT !.anims = <<[a EXCEPT !.elapsed = k]>> \o rest.anims]

(* The animate callbacks queued for a frame run in the order they were     *)
(* requested; each re-queues itself while progress < 1.                    *)
RECURSIVE RunAnimations(_, _, _)
RunAnimations(g, as, dt) ==
    IF as = <<>> THEN [g EXCEPT !.anims = <<>>]
    ELSE LET a == Head(as)
             k == Min(a.elapsed + dt, DurationSteps)
             g1 == AnimateStep(g, a, k)
             rest == RunAnimations(g1, Tail(as), dt)
         IN  IF k < DurationSteps
             THEN [rest EXCEPT !.anims = <<[a EXCEPT !.elapsed = k]>> \o rest.anims]
             ELSE rest

(* The number of movePlayer calls of a display frame that change the       *)
(* player position: the one of handleInput, then one per animate callback. *)
Moved(before, after) == <<after.player.x, after.player.y>> # <<before.player.x, before.player.y>>

RECURSIVE AnimationMoves(_, _, _)
AnimationMoves(g, as, dt) ==
    IF as = <<>> THEN 0
    ELSE LET a == Head(as)
             g1 == AnimateStep(g, a, Min(a.elapsed + dt, DurationSteps))
         IN  (IF Moved(g, g1) THEN 1 ELSE 0) + AnimationMoves(g1, Tail(as), dt)

MovesInFrame(g, chatOpen, dt) ==
    LET tick == gameLoop(g, chatOpen)
    IN  (IF Moved(g, tick) THEN 1 ELSE 0) + AnimationMoves(tick, g.anims, dt)

movePlayerTo(g, x, y) ==
    LET deltaX == x - g.player.x
        deltaY == y - g.player.y
        movementX == IF deltaX > 0 THEN 1 ELSE IF deltaX < 0 THEN -1 ELSE 0
        movementY == IF deltaY > 0 THEN 1 ELSE IF deltaY < 0 THEN -1 ELSE 0
        a == [startX |-> g.player.x, startY |-> g.player.y,
              targetX |-> x, targetY |-> y, elapsed |-> 0]
        g1 == AnimateStep(updatePlayerDirection(g, movementX, movementY), a, 0)
    IN  [g1 EXCEPT !.anims = Append(g1.anims, a)]

-----------------------------------------------------------------------------
(* Text.  A text is a sequence of tokens: the characters " ", NL, ".",     *)
(* "!", "?", "<", ">" stand for themselves, any other token is a run of    *)
(* characters none of which is one of these.                               *)

NL == "\\n"
Space == {" ", NL}
SentenceEnd == {".", "!", "?"}

RECURSIVE TrimLeft(_)
TrimLeft(s) == IF s # <<>> /\ Head(s) \in Space THEN TrimLeft(Tail(s)) ELSE s

RECURSIVE TrimRight(_)
TrimRight(s) ==
    IF s # <<>> /\ s[Len(s)] \in Space THEN TrimRight(SubSeq(s, 1, Len(s) - 1)) ELSE s

(* String.prototype.trim *)
Trim(s) == TrimRight(TrimLeft(s))

Includes(s, c) == \E i \in DOMAIN s : s[i] = c

(* formatMessageContent: text that has both "<" and ">" is returned as is; *)
(* otherwise the space after ".", "!", "?" becomes a line break, and a     *)
(* line break that ends the text after such a mark is dropped.             *)
formatMessageContent(content) ==
    IF Includes(content, "<") /\ Includes(content, ">") THEN content
    ELSE LET broken == [i \in DOMAIN content |->
                          IF i > 1 /\ content[i] = " " /\ content[i - 1] \in SentenceEnd
                          THEN NL ELSE content[i]]
             n == Len(broken)
         IN  IF n >= 2 /\ broken[n] = NL /\ broken[n - 1] \in SentenceEnd
             THEN SubSeq(broken, 1, n - 1)
             ELSE broken

-----------------------------------------------------------------------------
(* Chat UI (ChatSystem).  messageHistory is the list of child elements of  *)
(* the history container, responseOptions the list of option buttons.      *)

LoadingText == <<"Loading conversation...">>
WelcomeText(npcName) == <<"Start a conversation with ", npcName, "!">>
SendErrorText == <<"Failed to send message. Please try again.">>
OpenErrorText == <<"Failed to start conversation. Please try again.">>
StarterOptions == << <<"Hi", "!">>,
                     <<"What's", " ", "good", " ", "here", "?">>,
                     <<"Who", " ", "are", " ", "you", "?">> >>
TypeYourOwn == <<"[Type your own response]">>

clearResponseOptions(c) == [c EXCEPT !.responseOptions = <<>>]

showResponseOptions(c, options) == [c EXCEPT !.responseOptions = options]

showLoadingMessage(c) ==
    [c EXCEPT !.messageHistory = <<[role |-> "loading", text |-> LoadingText]>>]

clearMessageHistory(c) == [c EXCEPT !.messageHistory = <<>>]

addMessageToHistory(c, role, content) ==
    [c EXCEPT !.messageHistory =
        Append(c.messageHistory, [role |-> role, text |-> formatMessageContent(content)])]

showError_Replaces(c, message) ==
    [c EXCEPT !.messageHistory = <<[role |-> "error", text |-> message]>>]

(* showError appends an assistant-styled element carrying the error text *)
showError(c, message) ==
    [c EXCEPT !.messageHistory = Append(c.messageHistory, [role |-> "error", text |-> message])]

showWelcomeMessage(c, npcName) ==
    showResponseOptions(
        [c EXCEPT !.messageHistory =
            Append(c.messageHistory, [role |-> "welcome", text |-> WelcomeText(npcName)])],
        StarterOptions)

(* focus() has an effect only on a visible, enabled element *)
FocusInput(c) ==
    [c EXCEPT !.inputFocused = ~c.modalHidden /\ ~c.messageInputDisabled]

setInputEnabled_InputOnly(c, enabled) ==
    LET c1 == [c EXCEPT !.messageInputDisabled = ~enabled,
                        !.inputFocused = c.inputFocused /\ enabled]
    IN  IF enabled THEN FocusInput(c1) ELSE c1

setInputEnabled(c, enabled) ==
    LET c1 == [c EXCEPT !.messageInputDisabled = ~enabled,
                        !.sendButtonDisabled = ~enabled,
                        !.inputFocused = c.inputFocused /\ enabled]
    IN  IF enabled THEN FocusInput(c1) ELSE c1

hideChat_KeepsOptions(c) ==
    [c EXCEPT !.isOpen = FALSE, !.activeNPC = Null, !.modalHidden = TRUE, !.inputFocused = FALSE]

hideChat_KeepsActiveNPC(c) ==
    clearResponseOptions([c EXCEPT !.isOpen = FALSE,
                                   !.modalHidden = TRUE,
                                   !.inputFocused = FALSE])

hideChat(c) ==
    clearResponseOptions([c EXCEPT !.isOpen = FALSE,
                                   !.activeNPC = Null,
                                   !.modalHidden = TRUE,
                                   !.inputFocused = FALSE])

RECURSIVE RenderHistory(_, _)
RenderHistory(c, npcHistory) ==
    IF npcHistory = <<>> THEN c
    ELSE RenderHistory(addMessageToHistory(c, Head(npcHistory).role, Head(npcHistory).content),
                       Tail(npcHistory))

-----------------------------------------------------------------------------
(* Backend data (inputs) *)

BackendNPCs == << [name |-> "Tyler", position |-> <<50, 50>>],
                  [name |-> "Brianna", position |-> <<50, 60>>],
                  [name |-> "Nobody", position |-> <<>>],
                  [name |-> "Marcus", position |-> <<50, 50>>] >>

FallbackNPCs == << [name |-> "la_jolla", gridX |-> 15, gridY |-> 25],
                   [name |-> "pacific_beach", gridX |-> 16, gridY |-> 48],
                   [name |-> "ocean_beach", gridX |-> 14, gridY |-> 75],
                   [name |-> "university_city", gridX |-> 32, gridY |-> 32],
                   [name |-> "clairemont", gridX |-> 28, gridY |-> 55],
                   [name |-> "mira_mesa", gridX |-> 55, gridY |-> 22],
                   [name |-> "black_montain", gridX |-> 78, gridY |-> 26],
                   [name |-> "miramar", gridX |-> 52, gridY |-> 38],
                   [name |-> "serra_mesa", gridX |-> 40, gridY |-> 68],
                   [name |-> "scripps_ranch", gridX |-> 78, gridY |-> 48],
                   [name |-> "el_cajon", gridX |-> 58, gridY |-> 65],
                   [name |-> "east_san_diego", gridX |-> 80, gridY |-> 65],
                   [name |-> "chula_vista", gridX |-> 55, gridY |-> 88],
                   [name |-> "coronado", gridX |-> 28, gridY |-> 78] >>

NPCNames == {BackendNPCs[i].name : i \in DOMAIN BackendNPCs}

(* The sprites of loadPlayerImages, and those whose load completes *)
SpriteNames == {"front", "front_left", "front_right", "behind", "behind_left", "behind_right"}
SpriteInputs == {"front", "front_right", "behind"}

(* Engaged sets reported by the history fetch of loadConversationStatus *)
StatusInputs == {{}, {"Tyler"}}

(* Per-NPC histories returned by getConversationHistory *)
HistoryInputs == { <<>>,
                   << [role |-> "user", content |-> <<"Hi", "!">>],
                      [role |-> "assistant", content |-> <<"Hey", ".", " ", "Sup", "?">>] >> }

(* Replies of interactWithNPC *)
ReplyInputs == { [text |-> <<"Hey", "!">>, options |-> << <<"Cool">>, <<"Bye">> >>],
                 [text |-> <<"Yo", ".", " ", "Hi", "!">>, options |-> << TypeYourOwn >>] }

(* Identifiers generateSessionId can return, and the one the constructor   *)
(* found in local storage or generated                                     *)
SessionIds == {"player-1", "player-2"}
InitialSessionId == "player-0"

(* Values of the message input when send is invoked *)
TypedInputs == { <<" ">>, <<" ", "Ok", ".", " ", "Bye">> }

(* GameAPI.getNPCData: the cached records of the NPC list with that name;  *)
(* the empty sequence stands for "not found".                              *)
getNPCData(npcName) ==
    LET HasName(n) == n.name = npcName IN SelectSeq(BackendNPCs, HasName)

-----------------------------------------------------------------------------
(* NPC roster *)

(* grid / 100: the grid position converted to a fraction of the map *)
GridToFraction(grid) == <<grid, 100>>

NewNPC(g, name, gridX, gridY) ==
    [name |-> name, x |-> GridToFraction(gridX), y |-> GridToFraction(gridY),
     gridX |-> gridX, gridY |-> gridY,
     width |-> IF g.player.width # 0 THEN g.player.width ELSE FallbackSize,
     height |-> IF g.player.height # 0 THEN g.player.height ELSE FallbackSize]

RECURSIVE PushBackendNPCs(_, _)
PushBackendNPCs(g, npcData) ==
    IF npcData = <<>> THEN g
    ELSE LET npc == Head(npcData)
             g1 == IF npc.position # <<>>
                   THEN [g EXCEPT !.npcs = Append(g.npcs,
                            NewNPC(g, npc.name, npc.position[1], npc.position[2]))]
                   ELSE g
         IN  PushBackendNPCs(g1, Tail(npcData))

setupNPCsFromBackend_StopsAtMissing(g, npcData) ==
    LET Missing == {i \in DOMAIN npcData : npcData[i].position = <<>>}
        stop == IF Missing = {} THEN Len(npcData) + 1
                ELSE CHOOSE i \in Missing : \A j \in Missing : i <= j
        g1 == PushBackendNPCs(g, SubSeq(npcData, 1, stop - 1))
    IN  IF g1.mapLoaded THEN calculateCharacterSizes(g1) ELSE g1

setupNPCsFromBackend(g, npcData) ==
    LET g1 == PushBackendNPCs(g, npcData)
    IN  IF g1.mapLoaded THEN calculateCharacterSizes(g1) ELSE g1

RECURSIVE PushFallbackNPCs(_, _)
PushFallbackNPCs(g, list) ==
    IF list = <<>> THEN g
    ELSE PushFallbackNPCs(
            [g EXCEPT !.npcs = Append(g.npcs,
                NewNPC(g, Head(list).name, Head(list).gridX, Head(list).gridY))],
            Tail(list))

setupNPCsFallback_Mixed(g) ==
    LET g1 == PushFallbackNPCs(PushBackendNPCs(g, BackendNPCs), FallbackNPCs)
    IN  IF g1.mapLoaded THEN calculateCharacterSizes(g1) ELSE g1

setupNPCsFallback(g) ==
    LET g1 == PushFallbackNPCs(g, FallbackNPCs)
    IN  IF g1.mapLoaded THEN calculateCharacterSizes(g1) ELSE g1

resetSession_ForgetsEngaged(g, newSessionId) ==
    [g EXCEPT !.storedSessionId = newSessionId, !.sessionId = newSessionId,
              !.npcConversationStatus = {}]

(* GameAPI.resetSession, with the identifier generateSessionId returned *)
resetSession_MemoryOnly(g, newSessionId) == [g EXCEPT !.sessionId = newSessionId]

resetSession(g, newSessionId) ==
    [g EXCEPT !.storedSessionId = newSessionId, !.sessionId = newSessionId]

markNPCAsSpokenTo_Forgets(g, npcName) == g

markNPCAsSpokenTo(g, npcName) ==
    [g EXCEPT !.npcConversationStatus = g.npcConversationStatus \cup {npcName}]

-----------------------------------------------------------------------------
(* Initial state: the Game constructor has run; init() is suspended at the *)
(* health check and the map image is loading.                              *)

Op(name) == [op |-> name, npc |-> Null, text |-> <<>>, options |-> <<>>]

InitGame(screen, image) ==
    [screenWidth |-> screen[1], screenHeight |-> screen[2],
     imageWidth |-> image[1], imageHeight |-> image[2],
     mapPending |-> TRUE, mapLoaded |-> FALSE,
     mapWidth |-> 0, mapHeight |-> 0, mapOffsetX |-> 0, mapOffsetY |-> 0,
     camera |-> [x |-> 0, y |-> 0],
     player |-> [x |-> screen[1] \div 2, y |-> screen[2] \div 2, width |-> 0, height |-> 0,
                 image |-> Null],
     playerImagesLoaded |-> {}, spritesPending |-> SpriteNames,
     currentDirection |-> "front",
     keys |-> {}, ctrlPressed |-> FALSE,
     npcs |-> <<>>, nearbyNPC |-> 0,
     interactionDistance |-> BaseInteractionDistance,
     npcConversationStatus |-> {},
     backendConnected |-> FALSE, chatSystem |-> FALSE,
     frameCount |-> Undefined, anims |-> <<>>,
     rafPending |-> 0,
     sessionId |-> InitialSessionId, storedSessionId |-> InitialSessionId,
     initStep |-> "health", running |-> FALSE]

InitChat ==
    [activeNPC |-> Null, isOpen |-> FALSE, modalHidden |-> TRUE,
     messageHistory |-> <<>>, responseOptions |-> <<>>,
     messageInputDisabled |-> FALSE, sendButtonDisabled |-> FALSE,
     inputFocused |-> FALSE]

Init ==
    /\ \E screen \in InitialScreens, image \in ImageSizes : game = InitGame(screen, image)
    /\ chat = InitChat
    /\ pending = <<>>
    /\ lastOp = Op("constructor")
    /\ used = [frames |-> 0, clicks |-> 0, resizes |-> 0, opens |-> 0, sends |-> 0,
               resets |-> 0]

-----------------------------------------------------------------------------
(* Start-up: the awaits of init() / initializeBackend()                    *)

(* The tail of init(): listeners are installed and gameLoop() runs its     *)
(* first frame synchronously.                                              *)
FinishInit(g) == gameLoop([g EXCEPT !.initStep = "done", !.running = TRUE], chat.isOpen)

(* The catch block of initializeBackend *)
BackendFailed(g) == FinishInit(setupNPCsFallback([g EXCEPT !.backendConnected = FALSE]))

HealthCheck(ok) ==
    /\ game.initStep = "health"
    /\ game' = IF ok THEN [game EXCEPT !.backendConnected = TRUE, !.initStep = "session"]
               ELSE FinishInit(setupNPCsFallback([game EXCEPT !.backendConnected = FALSE]))
    /\ lastOp' = Op("checkBackendHealth")
    /\ UNCHANGED <<chat, pending, used>>

SessionInit(ok) ==
    /\ game.initStep = "session"
    /\ game' = IF ok THEN [game EXCEPT !.initStep = "npcs"] ELSE BackendFailed(game)
    /\ lastOp' = Op("initializeSession")
    /\ UNCHANGED <<chat, pending, used>>

NPCsLoad(ok) ==
    /\ game.initStep = "npcs"
    /\ game' = IF ok
               THEN [setupNPCsFromBackend(game, BackendNPCs)
                        EXCEPT !.chatSystem = TRUE, !.initStep = "status"]
               ELSE BackendFailed(game)
    /\ lastOp' = Op("getNPCs")
    /\ UNCHANGED <<chat, pending, used>>

(* loadConversationStatus resumes: engaged is the set of NPCs with a       *)
(* non-empty stored conversation; a failed fetch is only logged.           *)
ConversationStatus(ok, engaged) ==
    /\ game.initStep = "status"
    /\ LET g1 == IF ok
                 THEN [game EXCEPT !.npcConversationStatus =
                                       game.npcConversationStatus \cup engaged]
                 ELSE game
           g2 == IF g1.mapLoaded THEN calculateCharacterSizes(g1) ELSE g1
       IN  game' = FinishInit(g2)
    /\ lastOp' = Op("loadConversationStatus")
    /\ UNCHANGED <<chat, pending, used>>

-----------------------------------------------------------------------------
(* Map image and window events *)

MapLoad ==
    /\ game.mapPending
    /\ LET g1 == calculateMapDimensions([game EXCEPT !.mapPending = FALSE, !.mapLoaded = TRUE])
           g2 == [g1 EXCEPT !.player.x = g1.mapOffsetX + g1.mapWidth \div 2,
                            !.player.y = g1.mapOffsetY + g1.mapHeight \div 2]
       IN  game' = updateCamera(g2)
    /\ lastOp' = Op("mapLoad")
    /\ UNCHANGED <<chat, pending, used>>

MapError ==
    /\ game.mapPending
    /\ game' = [game EXCEPT !.mapPending = FALSE]
    /\ lastOp' = Op("mapError")
    /\ UNCHANGED <<chat, pending, used>>

(* onload / onerror of a player sprite *)
SpriteLoads(direction) ==
    /\ direction \in game.spritesPending
    /\ game' = [game EXCEPT !.spritesPending = @ \ {direction},
                            !.playerImagesLoaded = @ \cup {direction},
                            !.player.image = IF @ = Null THEN direction ELSE @]
    /\ lastOp' = Op("spriteLoad")
    /\ UNCHANGED <<chat, pending, used>>

SpriteFails(direction) ==
    /\ direction \in game.spritesPending
    /\ game' = [game EXCEPT !.spritesPending = @ \ {direction},
                            !.playerImagesLoaded = @ \ {direction}]
    /\ lastOp' = Op("spriteError")
    /\ UNCHANGED <<chat, pending, used>>

Resize(screen) ==
    /\ used.resizes < MaxResizes
    /\ screen # <<game.screenWidth, game.screenHeight>>
    /\ LET g1 == [game EXCEPT !.screenWidth = screen[1], !.screenHeight = screen[2]]
       IN  game' = IF g1.mapLoaded THEN calculateMapDimensions(g1) ELSE g1
    /\ lastOp' = Op("resize")
    /\ used' = [used EXCEPT !.resizes = @ + 1]
    /\ UNCHANGED <<chat, pending>>

-----------------------------------------------------------------------------
(* Keyboard and mouse.  keys holds the pressed keys that handleInput reads. *)

KeyDown(k) ==
    /\ game.running
    /\ k \notin game.keys
    /\ game' = [game EXCEPT !.keys = @ \cup {k}]
    /\ lastOp' = Op("keydown")
    /\ UNCHANGED <<chat, pending, used>>

KeyUp(k) ==
    /\ game.running
    /\ k \in game.keys
    /\ game' = [game EXCEPT !.keys = @ \ {k}]
    /\ lastOp' = Op("keyup")
    /\ UNCHANGED <<chat, pending, used>>

ControlDown ==
    /\ game.running
    /\ ~game.ctrlPressed
    /\ game' = [game EXCEPT !.ctrlPressed = TRUE]
    /\ lastOp' = Op("keydown")
    /\ UNCHANGED <<chat, pending, used>>

ControlUp ==
    /\ game.running
    /\ game.ctrlPressed
    /\ game' = [game EXCEPT !.ctrlPressed = FALSE]
    /\ lastOp' = Op("keyup")
    /\ UNCHANGED <<chat, pending, used>>

(* Every eased position of the animation is a whole number of pixels *)
ExactEase(from, to) ==
    \A k \in 1..DurationSteps : ((to - from) * EaseNum(k)) % EaseDen = 0

Click(offset) ==
    /\ game.running
    /\ used.clicks < MaxClicks
    /\ LET screenX == game.screenWidth \div 2 + offset[1]
           screenY == game.screenHeight \div 2 + offset[2]
           worldX == screenX + game.camera.x
           worldY == screenY + game.camera.y
       IN  /\ screenX \in 0..game.screenWidth
           /\ screenY \in 0..game.screenHeight
           /\ ExactEase(game.player.x, worldX)
           /\ ExactEase(game.player.y, worldY)
           /\ game' = IF InputSuppressed(game, chat.isOpen) THEN game
                      ELSE movePlayerTo(game, worldX, worldY)
    /\ lastOp' = Op("click")
    /\ used' = [used EXCEPT !.clicks = @ + 1]
    /\ UNCHANGED <<chat, pending>>

(* One display frame: the gameLoop callback, then the queued animate       *)
(* callbacks; dt is the time since the previous frame in quanta.           *)
Frame(dt) ==
    /\ game.running
    /\ game.rafPending > 0
    /\ used.frames < MaxFrames
    /\ game' = RunAnimations(AnimationFrame(game, chat.isOpen), game.anims, dt)
    /\ lastOp' = Op("frame")
    /\ used' = [used EXCEPT !.frames = @ + 1]
    /\ UNCHANGED <<chat, pending>>

(* n display frames in a row while no animation is queued: gameLoop runs n *)
(* times with no other event in between.                                   *)
RECURSIVE RunFrames(_, _, _)
RunFrames(g, chatOpen, n) ==
    IF n = 0 THEN g
    ELSE IF n = 1 THEN AnimationFrame(g, chatOpen)
    ELSE CHOOSE last \in {RunFrames(half, chatOpen, n - n \div 2) :
                              half \in {RunFrames(g, chatOpen, n \div 2)}} : TRUE

FrameBurst(n) ==
    /\ game.running
    /\ game.rafPending > 0
    /\ game.anims = <<>>
    /\ used.frames < MaxFrames
    /\ game' = RunFrames(game, chat.isOpen, n)
    /\ lastOp' = Op("frame")
    /\ used' = [used EXCEPT !.frames = @ + 1]
    /\ UNCHANGED <<chat, pending>>

-----------------------------------------------------------------------------
(* Chat session bridge.  pending is the list of requests in flight; each   *)
(* entry holds what its continuation captured when it was suspended.       *)

Request(kind, npc, text) ==
    [kind |-> kind, npc |-> npc, text |-> text, session |-> game.sessionId]

Without(seq, i) == SubSeq(seq, 1, i - 1) \o SubSeq(seq, i + 1, Len(seq))

(* showChat up to the await inside loadConversationHistory.  When the NPC  *)
(* record is missing, the catch block reports the error and nothing is     *)
(* fetched.                                                                *)
showChat(c, npcName) ==
    LET c1 == [c EXCEPT !.activeNPC = npcName, !.isOpen = TRUE]
    IN  IF getNPCData(npcName) = <<>>
        THEN showError(c1, OpenErrorText)
        ELSE showLoadingMessage([c1 EXCEPT !.modalHidden = FALSE])

(* The request of loadConversationHistory: getConversationHistory is       *)
(* called and awaited with npcName captured.                               *)
getConversationHistory_NotSent(p, npcName) == p

getConversationHistory(p, npcName) == Append(p, Request("history", npcName, <<>>))

(* The alert() calls of handleNPCInteraction; the empty text stands for no  *)
(* alert.                                                                  *)
NotConnectedAlert == <<"Backend not connected! Cannot start conversation.">>
NotInitializedAlert == <<"Chat system not initialized!">>

InteractionAlert_Silent(g) == <<>>

InteractionAlert(g) ==
    IF g.nearbyNPC = 0 THEN <<>>
    ELSE IF ~g.backendConnected THEN NotConnectedAlert
    ELSE IF ~g.chatSystem THEN NotInitializedAlert
    ELSE <<>>

(* handleNPCInteraction, from the "E" branch of the keydown handler *)
PressE ==
    /\ game.running
    /\ ~chat.inputFocused
    /\ lastOp' = [Op("handleNPCInteraction") EXCEPT
                    !.npc = IF game.nearbyNPC = 0 THEN Null
                            ELSE game.npcs[game.nearbyNPC].name,
                    !.text = InteractionAlert(game)]
    /\ IF game.nearbyNPC = 0 \/ ~game.backendConnected \/ ~game.chatSystem
       THEN UNCHANGED <<game, chat, pending, used>>
       ELSE LET npcName == game.npcs[game.nearbyNPC].name
            IN  /\ used.opens < MaxOpens
                /\ chat' = showChat(chat, npcName)
                /\ pending' = IF getNPCData(npcName) = <<>> THEN pending
                              ELSE getConversationHistory(pending, npcName)
                /\ used' = [used EXCEPT !.opens = @ + 1]
                /\ UNCHANGED game

(* The Escape branch of the keydown handler *)
PressEscape ==
    /\ game.running
    /\ game.chatSystem /\ chat.isOpen
    /\ chat' = hideChat(chat)
    /\ lastOp' = Op("hideChat")
    /\ UNCHANGED <<game, pending, used>>

(* The close button, or a click on the modal's backdrop *)
CloseClick ==
    /\ game.chatSystem
    /\ ~chat.modalHidden
    /\ chat' = hideChat(chat)
    /\ lastOp' = Op("hideChat")
    /\ UNCHANGED <<game, pending, used>>

(* loadConversationHistory resumes with the NPC's stored conversation, and *)
(* showChat then focuses the input.                                        *)
HistoryResolves(i, npcHistory) ==
    /\ i \in DOMAIN pending
    /\ pending[i].kind = "history"
    /\ LET npcName == pending[i].npc
           c1 == clearMessageHistory(chat)
           c2 == IF npcHistory = <<>>
                 THEN showWelcomeMessage(c1, npcName)
                 ELSE RenderHistory(c1, npcHistory)
       IN  chat' = FocusInput(c2)
    /\ pending' = Without(pending, i)
    /\ lastOp' = [Op("historyResolved") EXCEPT !.npc = pending[i].npc]
    /\ UNCHANGED <<game, used>>

HistoryRejects(i) ==
    /\ i \in DOMAIN pending
    /\ pending[i].kind = "history"
    /\ chat' = FocusInput(showWelcomeMessage(clearMessageHistory(chat), pending[i].npc))
    /\ pending' = Without(pending, i)
    /\ lastOp' = [Op("historyRejected") EXCEPT !.npc = pending[i].npc]
    /\ UNCHANGED <<game, used>>

(* handleSendMessage up to the await of interactWithNPC *)
SendAccepted(c, value) == Trim(value) # <<>> /\ c.activeNPC # Null

handleSendMessage(c, value) ==
    IF ~SendAccepted(c, value) THEN c
    ELSE clearResponseOptions(
            addMessageToHistory(setInputEnabled(c, FALSE), "user", Trim(value)))

SendStep(c, value, opName) ==
    /\ chat' = handleSendMessage(c, value)
    /\ lastOp' = [Op(opName) EXCEPT !.npc = c.activeNPC, !.text = Trim(value)]
    /\ IF SendAccepted(c, value)
       THEN /\ used.sends < MaxSends
            /\ pending' = Append(pending, Request("send", c.activeNPC, Trim(value)))
            /\ used' = [used EXCEPT !.sends = @ + 1]
       ELSE UNCHANGED <<pending, used>>
    /\ UNCHANGED game

(* The user types value into the message input and presses Enter (or the   *)
(* send button).                                                           *)
TypeAndSend(value) ==
    /\ game.chatSystem
    /\ ~chat.modalHidden
    /\ ~chat.messageInputDisabled /\ ~chat.sendButtonDisabled
    /\ SendStep([chat EXCEPT !.inputFocused = TRUE], value, "send")

(* handleOptionClick: the option becomes the value of the message input    *)
(* and handleSendMessage reads it from there                               *)
handleOptionClick_FillsInput(c, option) == c

handleOptionClick(c, option) == handleSendMessage(c, option)

(* Click on the i-th option button *)
OptionClick(i) ==
    /\ game.chatSystem
    /\ ~chat.modalHidden
    /\ i \in DOMAIN chat.responseOptions
    /\ LET option == chat.responseOptions[i]
           c == [chat EXCEPT !.inputFocused = FALSE]
       IN  IF option = TypeYourOwn
           THEN /\ chat' = FocusInput(c)
                /\ lastOp' = Op("focusInput")
                /\ UNCHANGED <<game, pending, used>>
           ELSE /\ chat' = handleOptionClick(c, option)
                /\ lastOp' = [Op("optionSend") EXCEPT !.npc = c.activeNPC,
                                                      !.text = Trim(option)]
                /\ IF SendAccepted(c, option)
                   THEN /\ used.sends < MaxSends
                        /\ pending' = Append(pending,
                                          Request("send", c.activeNPC, Trim(option)))
                        /\ used' = [used EXCEPT !.sends = @ + 1]
                   ELSE UNCHANGED <<pending, used>>
                /\ UNCHANGED game

(* interactWithNPC resolves: handleSendMessage resumes after its await *)
SendResolves(i, response) ==
    /\ i \in DOMAIN pending
    /\ pending[i].kind = "send"
    /\ LET c1 == addMessageToHistory(chat, "assistant", response.text)
           c2 == showResponseOptions(c1, response.options)
       IN  chat' = setInputEnabled(c2, TRUE)
    /\ game' = markNPCAsSpokenTo(game, chat.activeNPC)
    /\ pending' = Without(pending, i)
    /\ lastOp' = [Op("sendResolved") EXCEPT !.npc = pending[i].npc,
                                             !.text = response.text,
                                             !.options = response.options]
    /\ UNCHANGED used

SendRejects(i) ==
    /\ i \in DOMAIN pending
    /\ pending[i].kind = "send"
    /\ chat' = setInputEnabled(showError(chat, SendErrorText), TRUE)
    /\ pending' = Without(pending, i)
    /\ lastOp' = [Op("sendRejected") EXCEPT !.npc = pending[i].npc]
    /\ UNCHANGED <<game, used>>

(* The user moves the focus into or out of the message input *)
FocusClick ==
    /\ ~chat.modalHidden
    /\ ~chat.messageInputDisabled
    /\ ~chat.inputFocused
    /\ chat' = [chat EXCEPT !.inputFocused = TRUE]
    /\ lastOp' = Op("focus")
    /\ UNCHANGED <<game, pending, used>>

Blur ==
    /\ chat.inputFocused
    /\ chat' = [chat EXCEPT !.inputFocused = FALSE]
    /\ lastOp' = Op("blur")
    /\ UNCHANGED <<game, pending, used>>

(* The Reset Session button, confirmed: resetGameSession up to its await   *)
ResetSession(newSessionId) ==
    /\ game.running
    /\ used.resets < MaxResets
    /\ game' = resetSession(game, newSessionId)
    /\ pending' = IF game.backendConnected
                  THEN Append(pending, [Request("sessionInit", Null, <<>>)
                                           EXCEPT !.session = newSessionId])
                  ELSE pending
    /\ lastOp' = Op("resetSession")
    /\ used' = [used EXCEPT !.resets = @ + 1]
    /\ UNCHANGED chat

(* initializeSession resolves: resetGameSession resumes after its await *)
ReinitResolves(i) ==
    /\ i \in DOMAIN pending
    /\ pending[i].kind = "sessionInit"
    /\ pending' = Without(pending, i)
    /\ lastOp' = Op("sessionReinitialized")
    /\ UNCHANGED <<game, chat, used>>

ResetFailedAlert == <<"Failed to reset session. Please refresh the page.">>

ReinitRejects(i) ==
    /\ i \in DOMAIN pending
    /\ pending[i].kind = "sessionInit"
    /\ pending' = Without(pending, i)
    /\ lastOp' = [Op("sessionReinitFailed") EXCEPT !.text = ResetFailedAlert]
    /\ UNCHANGED <<game, chat, used>>

-----------------------------------------------------------------------------

NextStartup ==
    \/ \E ok \in BOOLEAN : HealthCheck(ok)
    \/ \E ok \in BOOLEAN : SessionInit(ok)
    \/ \E ok \in BOOLEAN : NPCsLoad(ok)
    \/ \E ok \in BOOLEAN, engaged \in StatusInputs : ConversationStatus(ok, engaged)
    \/ MapLoad
    \/ MapError

NextPointer ==
    \/ \E offset \in ClickOffsets : Click(offset)
    \/ \E dt \in FrameQuanta : Frame(dt)

NextWorld ==
    \/ \E screen \in ScreenSizes : Resize(screen)
    \/ \E k \in KeyInputs : KeyDown(k)
    \/ \E k \in KeyInputs : KeyUp(k)
    \/ ControlDown
    \/ ControlUp

NextChat ==
    \/ PressE
    \/ PressEscape
    \/ CloseClick
    \/ \E i \in DOMAIN pending, h \in HistoryInputs : HistoryResolves(i, h)
    \/ \E i \in DOMAIN pending : HistoryRejects(i)
    \/ \E value \in TypedInputs : TypeAndSend(value)
    \/ \E i \in DOMAIN chat.responseOptions : OptionClick(i)
    \/ \E i \in DOMAIN pending, response \in ReplyInputs : SendResolves(i, response)
    \/ \E i \in DOMAIN pending : SendRejects(i)
    \/ FocusClick
    \/ Blur

NextSprites ==
    \/ \E direction \in SpriteInputs : SpriteLoads(direction)
    \/ \E direction \in SpriteInputs : SpriteFails(direction)

Next == NextStartup \/ NextPointer \/ NextWorld \/ NextChat \/ NextSprites

(* Every event of the client *)
Spec == Init /\ [][Next]_vars

(* Start-up with the backend unreachable, and with every start-up request  *)
(* answered                                                                *)
StartOffline == HealthCheck(FALSE) \/ MapLoad \/ MapError

StartOnline ==
    \/ HealthCheck(TRUE)
    \/ SessionInit(TRUE)
    \/ NPCsLoad(TRUE)
    \/ \E ok \in BOOLEAN, engaged \in StatusInputs : ConversationStatus(ok, engaged)
    \/ MapLoad

(* The world without conversations: window, keyboard, mouse and frames     *)
(* over the built-in roster                                                *)
SpecWorld == Init /\ [][StartOffline \/ NextPointer \/ NextWorld]_vars

(* Approaching and addressing: a click below the player, frames, and the   *)
(* chat opened, closed and its history delivered, with nothing sent        *)
ChatPointer ==
    \/ Click(<<0, 64>>)
    \/ \E dt \in FrameQuanta : Frame(dt)

NextApproach ==
    \/ PressE
    \/ PressEscape
    \/ CloseClick
    \/ \E i \in DOMAIN pending, h \in HistoryInputs : HistoryResolves(i, h)
    \/ \E i \in DOMAIN pending : HistoryRejects(i)

SpecApproach == Init /\ [][StartOnline \/ ChatPointer \/ NextApproach]_vars

(* Conversations: every event of the chat with the player standing where   *)
(* the first gameLoop call of init() found it; no key held, no click, no   *)
(* resize and no later frame (a frame changes nothing the chat reads)      *)
SpecChat == Init /\ [][StartOnline \/ NextChat]_vars

(* Character sizes: every outcome of start-up and of the map image, then   *)
(* resizes, single frames and a second of frames in a row                  *)
NextSizes ==
    \/ \E screen \in ScreenSizes : Resize(screen)
    \/ \E dt \in FrameQuanta : Frame(dt)
    \/ \E n \in BurstLengths : FrameBurst(n)

SpecSizes == Init /\ [][NextStartup \/ NextSizes]_vars

(* Keyboard movement: the built-in roster, resizes, keys and frames, with  *)
(* no click                                                                *)
NextFrame == \E dt \in FrameQuanta : Frame(dt)

SpecKeys == Init /\ [][StartOffline \/ NextWorld \/ NextFrame]_vars

(* Proximity: the backend's roster, both clicks, frames, and the chat      *)
(* opened and closed                                                       *)
SpecProximity == Init /\ [][StartOnline \/ NextPointer \/ NextApproach]_vars

(* Interaction: every outcome of start-up, resizes and frames, and the     *)
(* chat opened, closed and its history delivered                           *)
NextResize == \E screen \in ScreenSizes : Resize(screen)

SpecInteract == Init /\ [][NextStartup \/ NextResize \/ NextFrame \/ NextApproach]_vars

(* Sessions: every outcome of start-up, the chat opened, a message typed   *)
(* and sent, and the session reset, with every request answered or failed  *)
NextSession ==
    \/ PressE
    \/ \E i \in DOMAIN pending, h \in HistoryInputs : HistoryResolves(i, h)
    \/ \E i \in DOMAIN pending : HistoryRejects(i)
    \/ \E value \in TypedInputs : TypeAndSend(value)
    \/ \E i \in DOMAIN pending, response \in ReplyInputs : SendResolves(i, response)
    \/ \E i \in DOMAIN pending : SendRejects(i)
    \/ \E id \in SessionIds : ResetSession(id)
    \/ \E i \in DOMAIN pending : ReinitResolves(i)
    \/ \E i \in DOMAIN pending : ReinitRejects(i)

SpecSession == Init /\ [][NextStartup \/ NextSession]_vars

(* The game loop next to a failing network: every outcome of start-up and  *)
(* of a session reset, the chat opened and a message sent with the history *)
(* and send requests failing, and display frames.  The browser runs a      *)
(* requested animation frame callback in the next display frame, so a      *)
(* frame that stays requested does run (FrameRuns is the step of Frame     *)
(* seen through the counters).                                             *)
FrameRequested == game.running /\ game.rafPending > 0 /\ used.frames < MaxFrames

FrameRuns ==
    /\ FrameRequested
    /\ used' = [used EXCEPT !.frames = @ + 1]
    /\ lastOp' = Op("frame")

NextNetwork ==
    \/ PressE
    \/ \E i \in DOMAIN pending : HistoryRejects(i)
    \/ TypeAndSend(<<" ", "Ok", ".", " ", "Bye">>)
    \/ \E i \in DOMAIN pending : SendRejects(i)
    \/ ResetSession("player-1")
    \/ \E i \in DOMAIN pending : ReinitResolves(i)
    \/ \E i \in DOMAIN pending : ReinitRejects(i)

SpecLoop ==
    Init /\ [][NextStartup \/ NextFrame \/ NextNetwork]_vars
         /\ WF_<<used, lastOp>>(FrameRuns)

(* Facing: the built-in roster, the four movement keys, a click on the     *)
(* centre of the window (the player's own position when the camera is      *)
(* centred) and frames                                                     *)
MovementKeys == {"w", "a", "s", "d"}

NextFacing ==
    \/ \E k \in MovementKeys : KeyDown(k)
    \/ \E k \in MovementKeys : KeyUp(k)
    \/ Click(<<0, 0>>)
    \/ \E dt \in FrameQuanta : Frame(dt)

SpecFacing == Init /\ [][StartOffline \/ NextFacing]_vars

(* Engagement: start-up with the backend up, the chat opened, closed and   *)
(* re-opened, messages sent and answered or failed, the session reset, and *)
(* the window resized                                                      *)
NextEngaged ==
    \/ PressE
    \/ PressEscape
    \/ \E i \in DOMAIN pending : HistoryResolves(i, <<>>)
    \/ TypeAndSend(<<"Hi">>)
    \/ \E i \in DOMAIN pending :
          SendResolves(i, [text |-> <<"Hey", "!">>, options |-> << TypeYourOwn >>])
    \/ \E i \in DOMAIN pending : SendRejects(i)
    \/ ResetSession("player-1")
    \/ \E i \in DOMAIN pending : ReinitResolves(i)
    \/ Resize(<<1000, 500>>)

SpecEngaged == Init /\ [][StartOnline \/ NextEngaged]_vars

(* Sprites: the built-in roster, the keys w and d, frames, and the player  *)
(* sprites loading or failing in any order                                 *)
NextSteer ==
    \/ \E k \in KeyInputs : KeyDown(k)
    \/ \E k \in KeyInputs : KeyUp(k)

SpecSprites == Init /\ [][StartOffline \/ NextSteer \/ NextFrame \/ NextSprites]_vars

(* Viewport: map images and windows of several shapes (square, landscape,  *)
(* portrait, strips five times as long as wide, and a large square), the   *)
(* built-in roster, resizes and frames                                     *)
ImageShapes == {<<1, 1>>, <<2, 1>>, <<1, 2>>, <<3, 1>>}
ViewportSizes == {<<500, 500>>, <<1000, 500>>, <<500, 1000>>, <<500, 100>>, <<100, 500>>,
                  <<1500, 1500>>}

InitViewport ==
    /\ \E screen \in InitialScreens, image \in ImageShapes : game = InitGame(screen, image)
    /\ chat = InitChat
    /\ pending = <<>>
    /\ lastOp = Op("constructor")
    /\ used = [frames |-> 0, clicks |-> 0, resizes |-> 0, opens |-> 0, sends |-> 0,
               resets |-> 0]

SpecViewport ==
    InitViewport /\ [][StartOffline \/ NextFrame
                          \/ \E screen \in ViewportSizes : Resize(screen)]_vars

-----------------------------------------------------------------------------
(* The chat state of the specification, read off the flags of ChatSystem   *)

HistoryPending ==
    \E i \in DOMAIN pending : pending[i].kind = "history" /\ pending[i].npc = chat.activeNPC

SendPending == \E i \in DOMAIN pending : pending[i].kind = "send"

ChatUIState ==
    IF ~chat.isOpen THEN "Closed"
    ELSE IF HistoryPending THEN "Loading"
    ELSE IF chat.messageInputDisabled THEN "Sending"
    ELSE "Open"

WalkableX(g) == (g.mapOffsetX + g.player.width \div 2)
                    .. (g.mapOffsetX + g.mapWidth - g.player.width \div 2)
WalkableY(g) == (g.mapOffsetY + g.player.height \div 2)
                    .. (g.mapOffsetY + g.mapHeight - g.player.height \div 2)

-----------------------------------------------------------------------------
(* C1: with the map loaded, whenever movePlayer has returned (a frame or a *)
(* click has run it), the player is inside the walkable bounds computed    *)
(* from the current map offset, map extent and player size.                *)
C1_BoundaryContainment ==
    (game.mapLoaded /\ lastOp.op \in {"frame", "click"})
        => (game.player.x \in WalkableX(game) /\ game.player.y \in WalkableY(game))

(* C2: while the chat is open, no frame and no canvas click changes the    *)
(* player position.                                                        *)
C2_NoMovementWhileChatOpen ==
    [][(chat.isOpen /\ lastOp'.op \in {"frame", "click"})
          => (game'.player.x = game.player.x /\ game'.player.y = game.player.y)]_vars

(* C3: a send request that completes while the chat is closed appends      *)
(* nothing to the message history, leaves the choice set empty and leaves  *)
(* the enabled state of the message input as it was.                       *)
C3_LateSendCompletionInert ==
    [][(~chat.isOpen /\ lastOp'.op \in {"sendResolved", "sendRejected"})
          => /\ chat'.messageHistory = chat.messageHistory
             /\ chat'.responseOptions = <<>>
             /\ chat'.messageInputDisabled = chat.messageInputDisabled]_vars

(* C4: the reply to a message sent to NPC A sets the engaged flag of A and *)
(* of nothing else.                                                        *)
C4_ReplyMarksAddressee ==
    [][lastOp'.op = "sendResolved"
          => game'.npcConversationStatus =
                 game.npcConversationStatus \cup {lastOp'.npc}]_vars

(* C5: a history response requested for NPC A that arrives when the active *)
(* NPC is not A changes neither the displayed history nor the choice set.  *)
C5_StaleHistoryInert ==
    [][(lastOp'.op = "historyResolved" /\ lastOp'.npc # chat.activeNPC)
          => /\ chat'.messageHistory = chat.messageHistory
             /\ chat'.responseOptions = chat.responseOptions]_vars

LoadingShown == chat.messageHistory = <<[role |-> "loading", text |-> LoadingText]>>

C7_CloseYieldsClosed ==
    lastOp.op = "hideChat"
        => /\ ChatUIState = "Closed"
           /\ chat.activeNPC = Null
           /\ chat.responseOptions = <<>>
           /\ ~InputSuppressed(game, chat.isOpen)

C7_Witness ==
    /\ lastOp.op = "hideChat"
    /\ SendPending
    /\ \E i \in DOMAIN pending : pending[i].kind = "history"

SentFromOpen ==
    /\ ChatUIState = "Open"
    /\ lastOp'.op \in {"send", "optionSend"}
    /\ lastOp'.text # <<>>

SendEffects(shownText) ==
    /\ chat'.messageHistory =
           Append(chat.messageHistory, [role |-> "user", text |-> shownText])
    /\ chat'.responseOptions = <<>>
    /\ chat'.messageInputDisabled /\ chat'.sendButtonDisabled
    /\ pending' = Append(pending, Request("send", chat.activeNPC, lastOp'.text))
    /\ ChatUIState' = "Sending"

(* C9 as stated: sending a non-empty message from Open appends one user    *)
(* entry with that very text, clears the choice set and disables the input *)
(* and the send button before the request is awaited.                      *)
C9_SendAppendsTheText ==
    [][SentFromOpen => SendEffects(lastOp'.text)]_vars

(* C9 amended: the entry appended carries the message as formatted by      *)
(* formatMessageContent (a space after ".", "!" or "?" becomes a line      *)
(* break); the other effects are as stated.                                *)
C9_SendAppendsFormattedText ==
    [][SentFromOpen => SendEffects(formatMessageContent(lastOp'.text))]_vars

C9_Witness ==
    /\ lastOp.op = "send"
    /\ ChatUIState = "Sending"
    /\ chat.messageHistory[Len(chat.messageHistory)] =
           [role |-> "user", text |-> <<"Ok", ".", NL, "Bye">>]

RepliedWhileOpen == chat.isOpen /\ lastOp'.op = "sendResolved"

ReplyEffects(shownText) ==
    /\ chat'.messageHistory =
           Append(chat.messageHistory, [role |-> "assistant", text |-> shownText])
    /\ chat'.responseOptions = lastOp'.options
    /\ chat.activeNPC \in game'.npcConversationStatus
    /\ ~chat'.messageInputDisabled /\ ~chat'.sendButtonDisabled
    /\ ChatUIState = "Sending" => ChatUIState' = "Open"

(* C10 as stated: a reply {text, options} that arrives while the chat is   *)
(* open for NPC N appends one assistant entry with that very text, makes   *)
(* the choice set the returned options, sets N's engaged flag and          *)
(* re-enables the input and the send button.                               *)
C10_ReplyAppendsTheText ==
    [][RepliedWhileOpen => ReplyEffects(lastOp'.text)]_vars

(* C10 amended: the entry appended carries the reply text as formatted by  *)
(* formatMessageContent; the other effects are as stated.                  *)
C10_ReplyAppendsFormattedText ==
    [][RepliedWhileOpen => ReplyEffects(formatMessageContent(lastOp'.text))]_vars

C10_Witness ==
    /\ lastOp.op = "sendResolved"
    /\ ChatUIState = "Open"
    /\ chat.activeNPC \in game.npcConversationStatus
    /\ chat.responseOptions = << <<"Cool">>, <<"Bye">> >>
    /\ chat.messageHistory[Len(chat.messageHistory)].role = "assistant"

RejectedWhileSending == ChatUIState = "Sending" /\ lastOp'.op = "sendRejected"

SendsInFlight == {i \in DOMAIN pending : pending[i].kind = "send"}

(* C12: at most one send request is in flight at any time, and while one   *)
(* is in flight the message input and the send button are disabled.        *)
C12_OneSendInFlight ==
    /\ Cardinality(SendsInFlight) <= 1
    /\ SendPending => (chat.messageInputDisabled /\ chat.sendButtonDisabled)

(* The gameLoop call that found frameCount = 60 has run the pass *)
PassHasRun(g) == g.frameCount # Undefined /\ g.frameCount > ConsistencyCadence

SizesInSync(g) ==
    \A i \in DOMAIN g.npcs : /\ g.npcs[i].width = g.player.width
                              /\ g.npcs[i].height = g.player.height

(* C13: after every tick that follows a consistency pass, every NPC has    *)
(* the player's width and height.                                          *)
C13_SizesInSyncAfterPass ==
    (lastOp.op = "frame" /\ PassHasRun(game)) => SizesInSync(game)

CameraAxisClamped(cameraPos, mapOffset, mapExtent, screenExtent) ==
    IF mapExtent > screenExtent
    THEN cameraPos \in mapOffset .. (mapOffset + mapExtent - screenExtent)
    ELSE cameraPos = mapOffset

(* C14: in every reachable state, on each axis, the camera is within       *)
(* [mapOffset, mapOffset + mapExtent - screenExtent] when the map is       *)
(* larger than the screen on that axis, and equals mapOffset otherwise.    *)
C14_CameraClamped ==
    /\ CameraAxisClamped(game.camera.x, game.mapOffsetX, game.mapWidth, game.screenWidth)
    /\ CameraAxisClamped(game.camera.y, game.mapOffsetY, game.mapHeight, game.screenHeight)

InteractionReady(g) == g.nearbyNPC # 0 /\ g.backendConnected /\ g.chatSystem

InteractionGuarded ==
    /\ (~chat.isOpen /\ chat'.isOpen) => InteractionReady(game)
    /\ ~InteractionReady(game) => UNCHANGED <<game, chat, pending>>

(* C15 as stated: interaction opens the chat only with an NPC nearby, the  *)
(* backend connected and the chat system initialized; when any of the      *)
(* three is missing an error is shown to the user and no state changes.    *)
C15_InteractionFailsWithError ==
    [][lastOp'.op = "handleNPCInteraction"
          => /\ InteractionGuarded
             /\ ~InteractionReady(game) => lastOp'.text # <<>>]_vars

(* C15 amended: with no NPC nearby the interaction does nothing and shows  *)
(* nothing; with an NPC nearby and the backend not connected or the chat   *)
(* system not initialized an alert is shown; in neither case does any      *)
(* state change, and the chat opens only when all three are present.       *)
C15_InteractionFailsQuietlyFarAway ==
    [][lastOp'.op = "handleNPCInteraction"
          => /\ InteractionGuarded
             /\ (~InteractionReady(game) /\ game.nearbyNPC # 0) => lastOp'.text # <<>>
             /\ game.nearbyNPC = 0 => lastOp'.text = <<>>]_vars

C15_Witness ==
    /\ lastOp.op = "handleNPCInteraction"
    /\ lastOp.text = NotConnectedAlert
    /\ game.nearbyNPC # 0
    /\ ~chat.isOpen

InRange(g) ==
    {i \in DOMAIN g.npcs :
        DistanceSq(g, g.npcs[i]) < g.interactionDistance * g.interactionDistance}

(* The NPC in range at minimum distance, the earliest of the roster among  *)
(* equals; 0 when none is in range                                         *)
NearestInRange(g) ==
    IF InRange(g) = {} THEN 0
    ELSE CHOOSE i \in InRange(g) :
            \A j \in InRange(g) :
                \/ DistanceSq(g, g.npcs[i]) < DistanceSq(g, g.npcs[j])
                \/ DistanceSq(g, g.npcs[i]) = DistanceSq(g, g.npcs[j]) /\ i <= j

(* C16: the tick (the gameLoop call) of every frame that runs with the     *)
(* chat closed leaves nearbyNPC the nearest NPC strictly within            *)
(* interactionDistance of the player, the first of the roster among equal  *)
(* minima, or null when no NPC is in range; the frame's animation          *)
(* callbacks do not touch it.                                              *)
C16_NearbyIsNearestInRange ==
    [][(lastOp'.op = "frame" /\ ~InputSuppressed(game, chat.isOpen))
          => LET tick == gameLoop(game, chat.isOpen)
             IN  /\ game'.nearbyNPC = tick.nearbyNPC
                 /\ tick.nearbyNPC = NearestInRange(tick)]_vars

C16_Witness ==
    /\ lastOp.op = "frame"
    /\ ~chat.isOpen
    /\ game.anims = <<>>
    /\ game.nearbyNPC = 1
    /\ \E j \in InRange(game) :
          j # 1 /\ DistanceSq(game, game.npcs[j]) = DistanceSq(game, game.npcs[1])

SameProximityInputs ==
    /\ game'.npcs = game.npcs
    /\ game'.player = game.player
    /\ game'.interactionDistance = game.interactionDistance
    /\ <<game'.mapOffsetX, game'.mapOffsetY, game'.mapWidth, game'.mapHeight>> =
           <<game.mapOffsetX, game.mapOffsetY, game.mapWidth, game.mapHeight>>

(* C17: in every reachable state, checkNPCProximity run twice in a row     *)
(* selects the same NPC both times and the second run does not update the  *)
(* prompt; and when nearbyNPC is the selection for the current roster, map *)
(* geometry and player position, a frame with the chat closed that changes *)
(* none of these leaves nearbyNPC as it was.                               *)
C17_ProximityIdempotent ==
    [][/\ LET once == checkNPCProximity(game)
          IN  /\ checkNPCProximity(once).nearbyNPC = once.nearbyNPC
              /\ ~PromptUpdates(once)
       /\ ( /\ lastOp'.op = "frame"
            /\ ~InputSuppressed(game, chat.isOpen)
            /\ ~PromptUpdates(game)
            /\ SameProximityInputs )
          => game'.nearbyNPC = game.nearbyNPC]_vars

C17_Witness ==
    /\ lastOp.op = "frame"
    /\ ~chat.isOpen
    /\ game.frameCount >= 3
    /\ used.clicks = 0
    /\ game.nearbyNPC # 0
    /\ ~PromptUpdates(game)

(* C18: in every display frame, whatever the sources of movement (a held   *)
(* key, running click animations), at most one movePlayer call changes the *)
(* player position.                                                        *)
C18_OneMutationPerFrame ==
    [][lastOp'.op = "frame"
          => \A dt \in FrameQuanta :
                game' = RunAnimations(AnimationFrame(game, chat.isOpen), game.anims, dt)
                    => MovesInFrame(game, chat.isOpen, dt) <= 1]_vars

StillRunning(a) == a.elapsed < DurationSteps

Advanced(as, dt) ==
    [i \in DOMAIN as |-> [as[i] EXCEPT !.elapsed = Min(@ + dt, DurationSteps)]]

(* C19: every queued click animation has less than the duration elapsed;   *)
(* a frame after dt > 0 advances each one by dt, keeps it queued only      *)
(* while its elapsed time is below the duration and queues nothing else,   *)
(* so an animation is gone for good at the first frame that finds the      *)
(* duration elapsed; and the movePlayer call of that frame is the call     *)
(* with the clicked target.                                                *)
C19_AnimationSingleShot ==
    [][/\ \A i \in DOMAIN game.anims :
             /\ StillRunning(game.anims[i])
             /\ AnimateStep(game, game.anims[i], DurationSteps)
                    = movePlayer(game, game.anims[i].targetX, game.anims[i].targetY)
       /\ lastOp'.op = "frame"
             => \A dt \in FrameQuanta :
                   game' = RunAnimations(AnimationFrame(game, chat.isOpen), game.anims, dt)
                       => game'.anims = SelectSeq(Advanced(game.anims, dt), StillRunning)]_vars

C19_Witness ==
    /\ lastOp.op = "frame"
    /\ used.clicks = 1
    /\ game.anims = <<>>
    /\ <<game.player.x, game.player.y>> = <<250, 314>>

(* Targets on and just outside each edge of the walkable area *)
ProbeX(g) == {g.mapOffsetX + g.player.width \div 2 - 1,
              g.mapOffsetX + g.player.width \div 2,
              g.mapOffsetX + g.mapWidth - g.player.width \div 2,
              g.mapOffsetX + g.mapWidth - g.player.width \div 2 + 1}
ProbeY(g) == {g.mapOffsetY + g.player.height \div 2 - 1,
              g.mapOffsetY + g.player.height \div 2,
              g.mapOffsetY + g.mapHeight - g.player.height \div 2,
              g.mapOffsetY + g.mapHeight - g.player.height \div 2 + 1}

AllOrNothing(before, after, x, y) ==
    IF checkCollision(before, x, y)
    THEN after.player = before.player /\ after.camera = before.camera
    ELSE /\ after.player.x = x /\ after.player.y = y
         /\ after.camera = updateCamera(after).camera

(* C20: movePlayer either rejects the target and leaves position and       *)
(* camera as they were, also when the target violates the bounds on one    *)
(* axis only, or puts the player exactly on the target and recomputes the  *)
(* camera from it: for targets on and just outside every edge in every     *)
(* reachable state, and for the move of every frame driven by the keys.    *)
C20_MoveAllOrNothing ==
    [][/\ \A x \in ProbeX(game), y \in ProbeY(game) :
             AllOrNothing(game, movePlayer(game, x, y), x, y)
       /\ (lastOp'.op = "frame" /\ ~InputSuppressed(game, chat.isOpen) /\ game.anims = <<>>)
             => AllOrNothing(game, game', KeyTarget(game)[1], KeyTarget(game)[2])]_vars

C20_Witness ==
    /\ lastOp.op = "frame"
    /\ game.mapLoaded
    /\ {"w", "d"} \subseteq game.keys
    /\ game.player.x \in WalkableX(game)
    /\ game.player.x + PlayerSpeed \in WalkableX(game)
    /\ game.player.y \notin WalkableY(game)

StaleSessionResponse ==
    /\ lastOp'.op \in {"historyResolved", "historyRejected", "sendResolved", "sendRejected"}
    /\ \E i \in DOMAIN pending :
          /\ pending' = Without(pending, i)
          /\ pending[i].kind \in {"history", "send"}
          /\ pending[i].session # game.sessionId

(* C22: after a session reset, the response to a history or send request   *)
(* made under the previous session identifier changes neither the          *)
(* displayed history, nor the choice set, nor any engaged flag.            *)
C22_StaleSessionResponseInert ==
    [][StaleSessionResponse
          => /\ chat'.messageHistory = chat.messageHistory
             /\ chat'.responseOptions = chat.responseOptions
             /\ game'.npcConversationStatus = game.npcConversationStatus]_vars

(* init() has returned without the chat system: the health check, the      *)
(* session initialization or the NPC list fetch failed                     *)
StartupFailed == game.initStep = "done" /\ ~game.chatSystem

BuiltInRoster(g) ==
    /\ Len(g.npcs) = 14
    /\ Len(FallbackNPCs) = 14
    /\ \A i \in DOMAIN g.npcs :
          /\ g.npcs[i].name = FallbackNPCs[i].name
          /\ g.npcs[i].gridX = FallbackNPCs[i].gridX
          /\ g.npcs[i].gridY = FallbackNPCs[i].gridY
    /\ Cardinality({g.npcs[i].name : i \in DOMAIN g.npcs}) = Len(g.npcs)
    /\ \A i \in DOMAIN g.npcs : g.npcs[i].name \notin NPCNames

(* C23: when the health check, the session initialization or the NPC list  *)
(* fetch fails at start-up, then from the end of init() on backendConnected *)
(* is false, the roster is exactly the 14 built-in NPCs, each name once    *)
(* and none from the backend, and the game loop is running.                *)
C23_OfflineStartupFallsBack ==
    StartupFailed => /\ ~game.backendConnected
                     /\ BuiltInRoster(game)
                     /\ game.running
                     /\ game.frameCount # Undefined

C23_Witness ==
    /\ lastOp.op = "getNPCs"
    /\ StartupFailed
    /\ game.mapLoaded

(* C24: from the moment the game loop has started, whichever of the        *)
(* requests of start-up, history, send and reset fail, exactly one         *)
(* gameLoop callback is requested and not yet run between any two events,  *)
(* and every frame that the exploration still allows is eventually run.    *)
C24_LoopKeepsTicking ==
    /\ [](game.running => game.rafPending = 1)
    /\ \A k \in 0..(MaxFrames - 1) :
          (game.running /\ used.frames = k) ~> (used.frames = k + 1)

C24_Witness ==
    /\ lastOp.op = "frame"
    /\ used.frames = MaxFrames
    /\ \E i \in DOMAIN chat.messageHistory : chat.messageHistory[i].role = "error"
    /\ game.rafPending = 1

(* The step is the map image's load, the end of a roster load (from the    *)
(* backend, or the built-in roster after a failed start-up request) or a   *)
(* window resize                                                           *)
SizeMutationPoint ==
    \/ lastOp'.op \in {"mapLoad", "resize"}
    \/ lastOp'.op \in {"checkBackendHealth", "initializeSession", "getNPCs"}
          /\ Len(game'.npcs) > Len(game.npcs)

(* C25: with the map loaded, right after the map image's load, a roster    *)
(* load or a window resize, every NPC has the player's width and height,   *)
(* whichever of map and roster was loaded first and before any periodic    *)
(* consistency pass has run.                                               *)
C25_SizesInSyncAtMutationPoints ==
    [][(SizeMutationPoint /\ game'.mapLoaded)
          => /\ SizesInSync(game')
             /\ game'.player.width = CharacterSize(game')
             /\ ~PassHasRun(game')]_vars

C25_Witness ==
    /\ lastOp.op = "mapLoad"
    /\ game.npcs # <<>>
    /\ game.player.width # FallbackSize
    /\ SizesInSync(game)

(* What typing value into the message input and invoking send does *)
TypedSend(value) ==
    LET typed == [chat EXCEPT !.inputFocused = TRUE]
    IN  /\ chat' = handleSendMessage(typed, value)
        /\ pending' = IF SendAccepted(typed, value)
                      THEN Append(pending, Request("send", typed.activeNPC, Trim(value)))
                      ELSE pending
        /\ game' = game

(* C26: a click on an option button other than the sentinel does what      *)
(* typing the option's text and invoking send does: the same user entry,   *)
(* the same request, the same chat state; a click on the sentinel          *)
(* "[Type your own response]" changes nothing but the focus, which goes to *)
(* the message input when it can take it.                                  *)
C26_OptionClickIsTypedSend ==
    [][/\ lastOp'.op = "optionSend" =>
            \E i \in DOMAIN chat.responseOptions :
                /\ chat.responseOptions[i] # TypeYourOwn
                /\ Trim(chat.responseOptions[i]) = lastOp'.text
                /\ TypedSend(chat.responseOptions[i])
       /\ lastOp'.op = "focusInput" =>
            /\ TypeYourOwn \in {chat.responseOptions[i] : i \in DOMAIN chat.responseOptions}
            /\ chat' = [chat EXCEPT !.inputFocused = ~chat.messageInputDisabled]
            /\ pending' = pending
            /\ game' = game]_vars

C26_Witness ==
    /\ lastOp.op = "optionSend"
    /\ SendPending
    /\ chat.messageHistory[Len(chat.messageHistory)] = [role |-> "user", text |-> <<"Cool">>]
    /\ chat.responseOptions = <<>>

WelcomeShown(c, npcName) ==
    /\ c.messageHistory = <<[role |-> "welcome", text |-> WelcomeText(npcName)]>>
    /\ c.responseOptions = StarterOptions

(* The one history fetch of the open chat ends in this step, by failing or *)
(* by delivering an empty history                                          *)
OpenFetchEndsEmpty ==
    /\ ChatUIState = "Loading"
    /\ Cardinality({i \in DOMAIN pending : pending[i].kind = "history"}) = 1
    /\ lastOp'.npc = chat.activeNPC
    /\ \/ lastOp'.op = "historyRejected"
       \/ /\ lastOp'.op = "historyResolved"
          /\ chat'.messageHistory # <<>>
          /\ chat'.messageHistory[1].role = "welcome"

(* C27: when the history fetch issued on open fails, or delivers an empty  *)
(* history, the chat goes from Loading to Open: the welcome message and    *)
(* the starter choice set are what is shown, and the input and the send    *)
(* button are enabled.                                                     *)
C27_FailedHistoryYieldsWelcome ==
    [][OpenFetchEndsEmpty
          => /\ ChatUIState' = "Open"
             /\ WelcomeShown(chat', chat.activeNPC)
             /\ ~chat'.messageInputDisabled /\ ~chat'.sendButtonDisabled]_vars

(* With the map loaded, this frame's gameLoop proposes a move from the     *)
(* held keys and the collision check rejects it                            *)
KeyMoveRejected ==
    /\ lastOp'.op = "frame"
    /\ game.mapLoaded
    /\ ~InputSuppressed(game, chat.isOpen)
    /\ game.anims = <<>>
    /\ KeyTarget(game) # <<game.player.x, game.player.y>>
    /\ checkCollision(game, KeyTarget(game)[1], KeyTarget(game)[2])

(* C28: a frame whose key-driven move is rejected by the collision check   *)
(* leaves the facing direction as it was.                                  *)
C28_RejectedMoveKeepsDirection ==
    [][KeyMoveRejected => game'.currentDirection = game.currentDirection]_vars

Directions == {"front", "front_left", "front_right", "behind", "behind_left", "behind_right"}

Signs == {-1, 0, 1}

(* The facing the claim gives for a movement vector *)
FacingFor(mx, my, current) ==
    CASE my = -1 /\ mx = -1 -> "behind_left"
      [] my = -1 /\ mx = 0  -> "behind"
      [] my = -1 /\ mx = 1  -> "behind_right"
      [] my = 1 /\ mx = -1  -> "front_left"
      [] my = 1 /\ mx = 0   -> "front"
      [] my = 1 /\ mx = 1   -> "front_right"
      [] my = 0 /\ mx = -1  -> "front_left"
      [] my = 0 /\ mx = 1   -> "front_right"
      [] my = 0 /\ mx = 0   -> current

(* C29: in every reachable state and for every movement vector with        *)
(* components in {-1, 0, 1}, updatePlayerDirection gives behind_left,       *)
(* behind, behind_right when moving up, front_left, front, front_right     *)
(* when moving down, front_left or front_right when moving sideways only,  *)
(* and keeps the direction for (0, 0); the facing direction is always one  *)
(* of the six values.                                                      *)
C29_DirectionFromVector ==
    /\ game.currentDirection \in Directions
    /\ \A mx \in Signs, my \in Signs :
          /\ updatePlayerDirection(game, mx, my).currentDirection
                 = FacingFor(mx, my, game.currentDirection)
          /\ updatePlayerDirection(game, mx, my)
                 = [game EXCEPT !.currentDirection = FacingFor(mx, my, game.currentDirection)]

C29_Witness ==
    /\ lastOp.op = "frame"
    /\ game.keys = {"a", "w"}
    /\ game.currentDirection = "behind_left"

ImageWider(g) == g.imageWidth * g.screenHeight > g.screenWidth * g.imageHeight

SizesComputed(g) == g.player.width # 0

(* C31: in every state in which the character sizes have been computed,    *)
(* interactionDistance is 1.5 times the player's width, and a step that    *)
(* changes the player's size changes interactionDistance to 1.5 times the  *)
(* new size in the same step.                                              *)
C31_InteractionDistanceFollowsSize ==
    /\ [](SizesComputed(game) => 2 * game.interactionDistance = 3 * game.player.width)
    /\ [][game'.player.width # game.player.width
              => 2 * game'.interactionDistance = 3 * game'.player.width]_vars

C31_Witness ==
    /\ lastOp.op = "resize"
    /\ game.mapLoaded
    /\ game.player.width = MinSize
    /\ 2 * game.interactionDistance = 3 * MinSize
    /\ game.interactionDistance # BaseInteractionDistance

(* 8% of the smaller map dimension, in 25ths of a pixel *)
BaseSize25(g) == 2 * (IF g.mapWidth < g.mapHeight THEN g.mapWidth ELSE g.mapHeight)

(* C32: whenever the sizes have been computed the player is square, and    *)
(* its size is 8% of the smaller map dimension when that lies within       *)
(* [40, 200], 40 when it is smaller and 200 when it is larger; with the    *)
(* map loaded the size is therefore within [40, 200].                      *)
C32_PlayerSizeClamped ==
    /\ SizesComputed(game) =>
          /\ game.player.width = game.player.height
          /\ BaseSize25(game) < 25 * 40 => game.player.width = 40
          /\ BaseSize25(game) > 25 * 200 => game.player.width = 200
          /\ BaseSize25(game) \in (25 * 40) .. (25 * 200)
                => 25 * game.player.width = BaseSize25(game)
    /\ game.mapLoaded => game.player.width \in 40 .. 200

C32_Witness ==
    /\ lastOp.op = "resize"
    /\ game.mapLoaded
    /\ BaseSize25(game) > 25 * 200
    /\ game.player.width = 200

(* The backend NPCs that carry position data, in backend order *)
PositionedBackendNPCs ==
    LET HasPosition(n) == n.position # <<>> IN SelectSeq(BackendNPCs, HasPosition)

(* C33: the step in which the backend NPC list loads leaves a roster with  *)
(* one NPC per backend NPC that carries position data, in backend order,   *)
(* each with its grid position and the fractions grid x / 100 and          *)
(* grid y / 100; the NPC without position data is absent and the one       *)
(* after it is present.                                                    *)
C33_RosterIsPositionedBackendNPCs ==
    [][game.initStep = "npcs" /\ game'.initStep = "status"
          => /\ Len(game'.npcs) = Len(PositionedBackendNPCs)
             /\ \A i \in DOMAIN PositionedBackendNPCs :
                   LET npc == game'.npcs[i]
                       data == PositionedBackendNPCs[i]
                   IN  /\ npc.name = data.name
                       /\ npc.gridX = data.position[1]
                       /\ npc.gridY = data.position[2]
                       /\ 100 * npc.x[1] = data.position[1] * npc.x[2]
                       /\ 100 * npc.y[1] = data.position[2] * npc.y[2]]_vars

C33_Witness ==
    /\ lastOp.op = "getNPCs"
    /\ game.initStep = "status"
    /\ Len(game.npcs) = 3
    /\ Len(BackendNPCs) = 4
    /\ BackendNPCs[3].position = <<>>
    /\ game.npcs[3].name = BackendNPCs[4].name
    /\ game.npcs[2].x = <<50, 100>>
    /\ game.npcs[2].y = <<60, 100>>

(* C34: a frame in which the only click animation terminates, with the map *)
(* loaded, no key held, and both the animation's start and its target      *)
(* inside the walkable bounds, leaves the player exactly at the target and *)
(* no animation queued.                                                    *)
C34_ClickReachesTarget ==
    [][\A dt \in FrameQuanta :
          (/\ lastOp'.op = "frame"
           /\ game' = RunAnimations(AnimationFrame(game, chat.isOpen), game.anims, dt)
           /\ game.mapLoaded
           /\ game.keys = {}
           /\ Len(game.anims) = 1
           /\ game.anims[1].elapsed + dt >= DurationSteps
           /\ game.anims[1].startX \in WalkableX(game)
           /\ game.anims[1].startY \in WalkableY(game)
           /\ game.anims[1].targetX \in WalkableX(game)
           /\ game.anims[1].targetY \in WalkableY(game))
          => /\ game'.anims = <<>>
             /\ game'.player.x = game.anims[1].targetX
             /\ game'.player.y = game.anims[1].targetY]_vars

C34_Witness ==
    /\ lastOp.op = "frame"
    /\ used.clicks = 1
    /\ game.mapLoaded
    /\ game.keys = {}
    /\ game.anims = <<>>
    /\ game.player.x = 250
    /\ game.player.y = 250 + 64
    /\ game.player.y \in WalkableY(game)

(* C35: while the chat is Loading, Open or Sending, running the            *)
(* interaction handler again issues no request and leaves the displayed    *)
(* history as it is.                                                       *)
C35_OpenOnlyFromClosed ==
    [][(lastOp'.op = "handleNPCInteraction" /\ ChatUIState # "Closed")
          => /\ pending' = pending
             /\ chat'.messageHistory = chat.messageHistory]_vars

(* The user messages displayed in chat c *)
UserMessages(c) ==
    {c.messageHistory[i] : i \in {j \in DOMAIN c.messageHistory :
                                      c.messageHistory[j].role = "user"}}

(* C36: a user message appended by a send whose reply is still awaited     *)
(* stays in the displayed history when a history fetch completes while     *)
(* the chat remains open with the same NPC.                                *)
C36_OptimisticMessageStays ==
    [][(/\ chat.isOpen /\ chat'.isOpen
        /\ chat'.activeNPC = chat.activeNPC
        /\ lastOp'.op \in {"historyResolved", "historyRejected"})
          => \A i \in DOMAIN pending :
                (/\ pending[i].kind = "send"
                 /\ pending[i].npc = chat.activeNPC
                 /\ [role |-> "user", text |-> formatMessageContent(pending[i].text)]
                        \in UserMessages(chat))
                  => [role |-> "user", text |-> formatMessageContent(pending[i].text)]
                        \in UserMessages(chat')]_vars

(* C37: whenever a frame has drawn the player from a sprite, that sprite   *)
(* is the one of the current facing direction.                             *)
C37_DrawnSpriteMatchesDirection ==
    (lastOp.op = "frame" /\ drawPlayer(game) # Rectangle)
        => drawPlayer(game) = game.currentDirection

AxisMoveAccepted(g) ==
    LET currentSpeed == IF g.ctrlPressed THEN PlayerSpeed * 2 ELSE PlayerSpeed
    IN  \E d \in {<<currentSpeed, 0>>, <<0 - currentSpeed, 0>>,
                  <<0, currentSpeed>>, <<0, 0 - currentSpeed>>} :
            ~checkCollision(g, g.player.x + d[1], g.player.y + d[2])

(* C39: in every state with the map loaded and the chat closed, at least   *)
(* one of the four axis-aligned key moves is accepted by the collision     *)
(* check.                                                                  *)
C39_KeyboardNeverBlocked ==
    (game.mapLoaded /\ ~chat.isOpen) => AxisMoveAccepted(game)

(* C40: after a frame or a click in which the player has moved with the    *)
(* map loaded, the player's position minus the camera lies within          *)
(* [0, screenWidth] x [0, screenHeight].                                   *)
C40_PlayerStaysOnScreen ==
    [][(/\ lastOp'.op \in {"frame", "click"}
        /\ game'.mapLoaded
        /\ Moved(game, game'))
          => /\ game'.player.x - game'.camera.x \in 0 .. game'.screenWidth
             /\ game'.player.y - game'.camera.y \in 0 .. game'.screenHeight]_vars

C40_Witness ==
    /\ lastOp.op = "frame"
    /\ game.mapLoaded
    /\ game.mapWidth < game.screenWidth
    /\ game.camera.x = game.mapOffsetX
    /\ game.player.x > game.mapOffsetX + game.mapWidth \div 2
    /\ game.player.x - game.camera.x \in 0 .. game.screenWidth

====
